---------------------------- MODULE Spec2Model ----------------------------
(***************************************************************************)
(* Model of omp_offload_mc.c: a parallel Monte Carlo estimator with        *)
(* adaptive stopping.  The orchestrator (main) parses the command line,    *)
(* runs a team of OpenMP threads that each run batches of trials and merge *)
(* them into shared totals inside the unnamed critical section, and then   *)
(* computes the final statistics.                                          *)
(*                                                                         *)
(* Numbers.  Deviates are the reals 0, 1/2 and 1, held as integers in      *)
(* units of 1/2 (0, 1, 2); a sum of deviates is in units of 1/2 and a sum  *)
(* of squares in units of 1/4.  rtol is a fraction <<num, den>>.  All      *)
(* arithmetic is exact; IEEE results that are NaN or infinite are modelled *)
(* by the outcome of the comparison they feed (always false).              *)
(***************************************************************************)
EXTENDS Integers, Sequences, FiniteSets, Bags, TLC

\* ------------------------------------------------------------------ bounds
MaxWorkers == 2        \* largest OpenMP team explored
MaxBatch == 2          \* largest -b argument explored
MaxCap == 2            \* largest -n argument explored
MaxTotal == 12         \* horizon: no new batch starts at or beyond this count

\* -------------------------------------------------------- program constants
DefaultMaxTrials == 1000000
DefaultNBatch == 500
DefaultRtol == <<1, 100>>

VARIABLES
    pc_main,      \* orchestrator position: "args", "parallel", "done", "exit"
    argv,         \* options getopt has still to return, in order
    extra,        \* TRUE when a non-option argument follows the options
    exit_code,    \* <<>> while running, <<status>> once the process has ended
    rtol, maxtrials, nbatch,               \* the run parameters (file scope)
    team,         \* number of threads of the parallel region
    randstate,    \* the values random() has still to return
    nthreads,     \* shared: written by every thread
    tnbatch,      \* shared by default: it is in no private clause
    all_sum_X, all_sum_X2, all_ntrials,    \* the shared aggregate
    lock,         \* holder of the unnamed critical section, 0 when free
    pc,           \* per thread position
    seed, mt, done_flag, t, sum_X, sum_X2, \* per thread private variables
    stats,        \* <<>> until main computes EX, EX2, stdX
    \* ---- history variables (observers, never read by the program)
    drawn,        \* per thread: bag of the deviates of its current batch
    committed,    \* bag of the deviates of all merged batches
    merged,       \* bag of the batch contributions <<sum_X, sum_X2, n>> merged
    merges,       \* per thread: number of completed merges
    first_conv,   \* all_ntrials when is_converged first returned true, else -1
    first_by,     \* the thread whose call that was, else 0
    after,        \* per thread: merges completed after that moment
    obs,          \* per thread: its is_converged results in the current section
    oracle,       \* the last is_converged call: arguments and result
    draws,        \* per thread: number of random() calls it has made
    access        \* threads that wrote nthreads, wrote tnbatch, read tnbatch

progvars == <<pc_main, argv, extra, exit_code, rtol, maxtrials, nbatch, team,
              randstate, nthreads, tnbatch, all_sum_X, all_sum_X2, all_ntrials,
              lock, pc, seed, mt, done_flag, t, sum_X, sum_X2, stats>>
obsvars == <<drawn, committed, merged, merges, first_conv, first_by, after,
             obs, oracle>>
histvars == <<obsvars, draws, access>>
vars == <<progvars, histvars>>

Threads == 1..team

\* ------------------------------------------------------------ command line
\* An option argument as text: junk (no leading number), or an optional
\* minus sign, an integer part and one decimal digit.
Num(i) == [junk |-> FALSE, neg |-> FALSE, int |-> i, tenths |-> 0]
Neg(i) == [junk |-> FALSE, neg |-> TRUE, int |-> i, tenths |-> 0]
Dec(i, d) == [junk |-> FALSE, neg |-> FALSE, int |-> i, tenths |-> d]
Junk == [junk |-> TRUE, neg |-> FALSE, int |-> 0, tenths |-> 0]
Opt(c, a) == [opt |-> c, arg |-> a]

\* atoi/atol: the leading integer, 0 for text that starts with no number;
\* parsing stops at the decimal point.
atoi(a) == IF a.junk THEN 0 ELSE IF a.neg THEN -a.int ELSE a.int
atol(a) == atoi(a)
\* atof: the leading decimal number as a fraction, 0 for junk.
atof(a) ==
    IF a.junk THEN <<0, 10>>
    ELSE IF a.neg THEN <<-(10 * a.int + a.tenths), 10>>
    ELSE <<10 * a.int + a.tenths, 10>>

\* -------------------------------------------------------- convergence test
\* varX/(EX*EX)/ntrials < rtol*rtol on doubles.  With ntrials = 0 or
\* sum_X = 0 the left side is NaN or +inf and the comparison is false.
\* Otherwise, multiplied out with positive denominators (units cancel):
\*   (n*sum_X2 - sum_X^2) / (n * sum_X^2) < (num/den)^2
RelErrBelow(sX, sX2, n, tol) ==
    IF n = 0 \/ sX = 0 THEN FALSE
    ELSE (n * sX2 - sX * sX) * tol[2] * tol[2] < tol[1] * tol[1] * n * sX * sX

\* faulty variant: the trial cap is left out of the test
is_converged_nocap(sX, sX2, n, tol, cap) ==
    RelErrBelow(sX, sX2, n, tol)

\* faulty variant: an undefined relative error (no trials, zero mean) answers false
\* before the cap is looked at
is_converged_undefined_false(sX, sX2, n, tol, cap) ==
    IF n = 0 \/ sX = 0 THEN FALSE
    ELSE RelErrBelow(sX, sX2, n, tol) \/ n > cap

is_converged(sX, sX2, n, tol, cap) ==
    RelErrBelow(sX, sX2, n, tol) \/ n > cap

\* ----------------------------------------------------------- deviate source
\* sgenrand/genrand (mt19937p) are outside the repository: a seed names a
\* stream, and genrand(m) is the set of values the next draw may give.
\* Seed 0 is an arbitrary stream over the end points 0 and 1, seed 1 the
\* constant 1/2 stream, seed 2 the alternating 0, 1, 0, 1, ... stream and
\* seed 3 an arbitrary stream over 0, 1/2 and 1.
Deviates == {0, 1, 2}
sgenrand(s) == [stream |-> s, idx |-> 0]
genrand(m) ==
    CASE m.stream = 1 -> {1}
      [] m.stream = 2 -> {IF m.idx = 0 THEN 0 ELSE 2}
      [] m.stream = 3 -> Deviates
      [] OTHER -> {0, 2}
advance(m) == [m EXCEPT !.idx = IF m.stream = 2 THEN 1 - m.idx ELSE 0]


\* ------------------------------------------------------------------- start
\* The state when main is entered and srandom(clock()) has run: the run is
\* fixed by its command line, the team size OpenMP will give the parallel
\* region, and the values random() will return.  Locals without initialiser
\* hold whatever the frame holds; the threads' private copies are written
\* before they are read, so they start at a placeholder.
Start(cmds, teams, seeds) ==
    /\ pc_main = "args"
    /\ argv \in cmds
    /\ extra \in BOOLEAN
    /\ exit_code = <<>>
    /\ rtol = DefaultRtol
    /\ maxtrials = DefaultMaxTrials
    /\ nbatch = DefaultNBatch
    /\ team \in teams
    /\ randstate \in [1..team -> seeds]
    /\ nthreads = -1
    /\ tnbatch \in {-1, 0}
    /\ all_sum_X = 0
    /\ all_sum_X2 = 0
    /\ all_ntrials = 0
    /\ lock = 0
    /\ pc = [w \in 1..team |-> "idle"]
    /\ seed = [w \in 1..team |-> 0]
    /\ mt = [w \in 1..team |-> sgenrand(0)]
    /\ done_flag = [w \in 1..team |-> FALSE]
    /\ t = [w \in 1..team |-> 0]
    /\ sum_X = [w \in 1..team |-> 0]
    /\ sum_X2 = [w \in 1..team |-> 0]
    /\ stats = <<>>
    /\ drawn = [w \in 1..team |-> EmptyBag]
    /\ committed = EmptyBag
    /\ merged = EmptyBag
    /\ merges = [w \in 1..team |-> 0]
    /\ first_conv = -1
    /\ first_by = 0
    /\ after = [w \in 1..team |-> 0]
    /\ obs = [w \in 1..team |-> <<>>]
    /\ oracle = <<>>
    /\ draws = [w \in 1..team |-> 0]
    /\ access = [nthreads_w |-> {}, tnbatch_w |-> {}, tnbatch_r |-> {}]

\* ------------------------------------------------------------ process_args
bad_rtol(x) == x[1] < 0
bad_maxtrials(n) == n < 1
\* faulty variant: only a negative batch size is refused
bad_nbatch_negative_only(n) == n < 0
bad_nbatch(n) == n < 1

\* exit(-1) when the value just stored is bad, else on to the next option
CheckOrExit(bad) ==
    /\ pc_main' = IF bad THEN "exit" ELSE "args"
    /\ exit_code' = IF bad THEN <<-1>> ELSE <<>>

\* one iteration of the getopt loop
GetoptStep ==
    /\ pc_main = "args"
    /\ argv # <<>>
    /\ argv' = Tail(argv)
    /\ LET o == Head(argv) IN
       CASE o.opt = "p" ->
                /\ CheckOrExit(FALSE)
                /\ UNCHANGED <<rtol, maxtrials, nbatch>>
         [] o.opt = "t" ->
                /\ rtol' = atof(o.arg)
                /\ CheckOrExit(bad_rtol(rtol'))
                /\ UNCHANGED <<maxtrials, nbatch>>
         [] o.opt = "n" ->
                /\ maxtrials' = atol(o.arg)
                /\ CheckOrExit(bad_maxtrials(maxtrials'))
                /\ UNCHANGED <<rtol, nbatch>>
         [] o.opt = "b" ->
                /\ nbatch' = atoi(o.arg)
                /\ CheckOrExit(bad_nbatch(nbatch'))
                /\ UNCHANGED <<rtol, maxtrials>>
         [] OTHER ->      \* '?': unknown option or missing argument
                /\ CheckOrExit(TRUE)
                /\ UNCHANGED <<rtol, maxtrials, nbatch>>
    /\ UNCHANGED <<extra, team, randstate, nthreads, tnbatch, all_sum_X,
                   all_sum_X2, all_ntrials, lock, pc, seed, mt, done_flag, t,
                   sum_X, sum_X2, stats, histvars>>

\* getopt returned -1: reject a non-option argument, else return to main,
\* which enters the parallel region (the team's threads start)
ArgsEnd ==
    /\ pc_main = "args"
    /\ argv = <<>>
    /\ IF extra
       THEN /\ pc_main' = "exit"
            /\ exit_code' = <<-1>>
            /\ pc' = pc
       ELSE /\ pc_main' = "parallel"
            /\ exit_code' = <<>>
            /\ pc' = [w \in Threads |-> "start"]
    /\ UNCHANGED <<argv, extra, rtol, maxtrials, nbatch, team, randstate,
                   nthreads, tnbatch, all_sum_X, all_sum_X2, all_ntrials, lock,
                   seed, mt, done_flag, t, sum_X, sum_X2, stats, histvars>>

\* ------------------------------------------------------------------ threads
\* nthreads = omp_get_max_threads();
ThreadStart(w) ==
    /\ pc[w] = "start"
    /\ nthreads' = team
    /\ pc' = [pc EXCEPT ![w] = "seed_enter"]
    /\ access' = [access EXCEPT !.nthreads_w = @ \cup {w}]
    /\ UNCHANGED <<pc_main, argv, extra, exit_code, rtol, maxtrials, nbatch,
                   team, randstate, tnbatch, all_sum_X, all_sum_X2, all_ntrials,
                   lock, seed, mt, done_flag, t, sum_X, sum_X2, stats, obsvars,
                   draws>>

\* faulty variant: the seed draw is entered without waiting for the lock
SeedEnterNoLock(w) ==
    /\ pc[w] = "seed_enter"
    /\ lock' = w
    /\ pc' = [pc EXCEPT ![w] = "seed_draw"]
    /\ UNCHANGED <<pc_main, argv, extra, exit_code, rtol, maxtrials, nbatch,
                   team, randstate, nthreads, tnbatch, all_sum_X, all_sum_X2,
                   all_ntrials, seed, mt, done_flag, t, sum_X, sum_X2, stats,
                   histvars>>

\* #pragma omp critical: wait for and take the unnamed lock
SeedEnter(w) ==
    /\ pc[w] = "seed_enter"
    /\ lock = 0
    /\ lock' = w
    /\ pc' = [pc EXCEPT ![w] = "seed_draw"]
    /\ UNCHANGED <<pc_main, argv, extra, exit_code, rtol, maxtrials, nbatch,
                   team, randstate, nthreads, tnbatch, all_sum_X, all_sum_X2,
                   all_ntrials, seed, mt, done_flag, t, sum_X, sum_X2, stats,
                   histvars>>

\* seed = random(); and the end of the critical construct
SeedDraw(w) ==
    /\ pc[w] = "seed_draw"
    /\ seed' = [seed EXCEPT ![w] = Head(randstate)]
    /\ randstate' = Tail(randstate)
    /\ lock' = 0
    /\ pc' = [pc EXCEPT ![w] = "init"]
    /\ draws' = [draws EXCEPT ![w] = @ + 1]
    /\ UNCHANGED <<pc_main, argv, extra, exit_code, rtol, maxtrials, nbatch,
                   team, nthreads, tnbatch, all_sum_X, all_sum_X2, all_ntrials,
                   mt, done_flag, t, sum_X, sum_X2, stats, obsvars, access>>

\* tnbatch = nbatch; tid = ...; sgenrand(seed, &mt); done_flag = 0; and the
\* head of the first do-iteration: sum_X = 0; sum_X2 = 0; t = 0
ThreadInit(w) ==
    /\ pc[w] = "init"
    /\ tnbatch' = nbatch
    /\ mt' = [mt EXCEPT ![w] = sgenrand(seed[w])]
    /\ done_flag' = [done_flag EXCEPT ![w] = FALSE]
    /\ sum_X' = [sum_X EXCEPT ![w] = 0]
    /\ sum_X2' = [sum_X2 EXCEPT ![w] = 0]
    /\ t' = [t EXCEPT ![w] = 0]
    /\ pc' = [pc EXCEPT ![w] = "batch"]
    /\ drawn' = [drawn EXCEPT ![w] = EmptyBag]
    /\ access' = [access EXCEPT !.tnbatch_w = @ \cup {w}]
    /\ UNCHANGED <<pc_main, argv, extra, exit_code, rtol, maxtrials, nbatch,
                   team, randstate, nthreads, all_sum_X, all_sum_X2,
                   all_ntrials, lock, seed, stats, committed, merged, merges,
                   first_conv, first_by, after, obs, oracle, draws>>

\* faulty variant: the batch loop stops one trial short
in_batch_one_short(i, n) == i < n - 1
\* t < tnbatch: the condition of the batch loop
in_batch(i, n) == i < n

\* one iteration of the batch loop: X = run_trial(&mt); sum_X += X;
\* sum_X2 += X*X; ++t
Trial(w) ==
    /\ pc[w] = "batch"
    /\ in_batch(t[w], tnbatch)
    /\ access' = [access EXCEPT !.tnbatch_r = @ \cup {w}]
    /\ \E X \in genrand(mt[w]) :
          /\ sum_X' = [sum_X EXCEPT ![w] = @ + X]
          /\ sum_X2' = [sum_X2 EXCEPT ![w] = @ + X * X]
          /\ drawn' = [drawn EXCEPT ![w] = @ (+) SetToBag({X})]
    /\ mt' = [mt EXCEPT ![w] = advance(@)]
    /\ t' = [t EXCEPT ![w] = @ + 1]
    /\ UNCHANGED <<pc_main, argv, extra, exit_code, rtol, maxtrials, nbatch,
                   team, randstate, nthreads, tnbatch, all_sum_X, all_sum_X2,
                   all_ntrials, lock, pc, seed, done_flag, stats, committed,
                   merged, merges, first_conv, first_by, after, obs, oracle,
                   draws>>

\* faulty variant: the merge section is entered without waiting for the lock
CritEnterNoLock(w) ==
    /\ pc[w] = "batch"
    /\ ~in_batch(t[w], tnbatch)
    /\ lock' = w
    /\ pc' = [pc EXCEPT ![w] = "pre"]
    /\ obs' = [obs EXCEPT ![w] = <<>>]
    /\ access' = [access EXCEPT !.tnbatch_r = @ \cup {w}]
    /\ UNCHANGED <<pc_main, argv, extra, exit_code, rtol, maxtrials, nbatch,
                   team, randstate, nthreads, tnbatch, all_sum_X, all_sum_X2,
                   all_ntrials, seed, mt, done_flag, t, sum_X, sum_X2, stats,
                   drawn, committed, merged, merges, first_conv, first_by,
                   after, oracle, draws>>

\* the batch loop ends (t >= tnbatch) and the thread takes the unnamed lock
CritEnter(w) ==
    /\ pc[w] = "batch"
    /\ ~in_batch(t[w], tnbatch)
    /\ lock = 0
    /\ lock' = w
    /\ pc' = [pc EXCEPT ![w] = "pre"]
    /\ obs' = [obs EXCEPT ![w] = <<>>]
    /\ access' = [access EXCEPT !.tnbatch_r = @ \cup {w}]
    /\ UNCHANGED <<pc_main, argv, extra, exit_code, rtol, maxtrials, nbatch,
                   team, randstate, nthreads, tnbatch, all_sum_X, all_sum_X2,
                   all_ntrials, seed, mt, done_flag, t, sum_X, sum_X2, stats,
                   drawn, committed, merged, merges, first_conv, first_by,
                   after, oracle, draws>>

\* faulty variant: done_flag = is_converged(...), without "done_flag ||"
FlagUpdateOverwrite(w, next) ==
    LET res == is_converged(all_sum_X, all_sum_X2, all_ntrials, rtol, maxtrials)
    IN  /\ done_flag' = [done_flag EXCEPT ![w] = res]
        /\ pc' = [pc EXCEPT ![w] = next]
        /\ obs' = [obs EXCEPT ![w] = Append(@, res)]
        /\ oracle' = <<[sX |-> all_sum_X, sX2 |-> all_sum_X2,
                        n |-> all_ntrials, res |-> res]>>
        /\ first_conv' = IF res /\ first_conv = -1
                         THEN all_ntrials ELSE first_conv
        /\ first_by' = IF res /\ first_conv = -1 THEN w ELSE first_by

\* faulty variant: one done_flag for the whole team (a true result stops
\* every thread)
FlagUpdateShared(w, next) ==
    LET called == ~done_flag[w]
        res == is_converged(all_sum_X, all_sum_X2, all_ntrials, rtol, maxtrials)
    IN  /\ done_flag' = [v \in DOMAIN done_flag |->
                            done_flag[v] \/ (called /\ res)]
        /\ pc' = [pc EXCEPT ![w] = next]
        /\ obs' = [obs EXCEPT ![w] = IF called THEN Append(@, res) ELSE @]
        /\ oracle' = IF called
                     THEN <<[sX |-> all_sum_X, sX2 |-> all_sum_X2,
                             n |-> all_ntrials, res |-> res]>>
                     ELSE oracle
        /\ first_conv' = IF called /\ res /\ first_conv = -1
                         THEN all_ntrials ELSE first_conv
        /\ first_by' = IF called /\ res /\ first_conv = -1 THEN w ELSE first_by

\* done_flag = (done_flag || is_converged(all_sum_X, all_sum_X2, all_ntrials,
\* rtol, maxtrials)); with || the call is made only when done_flag is 0.
\* The history variables record the call.
FlagUpdate(w, next) ==
    LET called == ~done_flag[w]
        res == is_converged(all_sum_X, all_sum_X2, all_ntrials, rtol, maxtrials)
    IN  /\ done_flag' = [done_flag EXCEPT ![w] = @ \/ res]
        /\ pc' = [pc EXCEPT ![w] = next]
        /\ obs' = [obs EXCEPT ![w] = IF called THEN Append(@, res) ELSE @]
        /\ oracle' = IF called
                     THEN <<[sX |-> all_sum_X, sX2 |-> all_sum_X2,
                             n |-> all_ntrials, res |-> res]>>
                     ELSE oracle
        /\ first_conv' = IF called /\ res /\ first_conv = -1
                         THEN all_ntrials ELSE first_conv
        /\ first_by' = IF called /\ res /\ first_conv = -1 THEN w ELSE first_by

\* faulty variant: a true pre-merge check skips the merge
PreCheckSkipsMerge(w) ==
    /\ pc[w] = "pre"
    /\ FlagUpdate(w, IF is_converged(all_sum_X, all_sum_X2, all_ntrials,
                                     rtol, maxtrials)
                     THEN "post" ELSE "mergeX")
    /\ UNCHANGED <<pc_main, argv, extra, exit_code, rtol, maxtrials, nbatch,
                   team, randstate, nthreads, tnbatch, all_sum_X, all_sum_X2,
                   all_ntrials, lock, seed, mt, t, sum_X, sum_X2, stats,
                   drawn, committed, merged, merges, after, draws, access>>

\* the pre-merge done_flag update; the merge follows whatever its result
PreCheck(w) ==
    /\ pc[w] = "pre"
    /\ FlagUpdate(w, "mergeX")
    /\ UNCHANGED <<pc_main, argv, extra, exit_code, rtol, maxtrials, nbatch,
                   team, randstate, nthreads, tnbatch, all_sum_X, all_sum_X2,
                   all_ntrials, lock, seed, mt, t, sum_X, sum_X2, stats,
                   drawn, committed, merged, merges, after, draws, access>>

\* faulty variant: plain assignment instead of +=
add_to_overwrite(a, b) == b
\* the compound assignment a += b
add_to(a, b) == a + b

\* all_sum_X += sum_X;
MergeX(w) ==
    /\ pc[w] = "mergeX"
    /\ all_sum_X' = add_to(all_sum_X, sum_X[w])
    /\ pc' = [pc EXCEPT ![w] = "mergeX2"]
    /\ UNCHANGED <<pc_main, argv, extra, exit_code, rtol, maxtrials, nbatch,
                   team, randstate, nthreads, tnbatch, all_sum_X2, all_ntrials,
                   lock, seed, mt, done_flag, t, sum_X, sum_X2, stats, histvars>>

\* all_sum_X2 += sum_X2;
MergeX2(w) ==
    /\ pc[w] = "mergeX2"
    /\ all_sum_X2' = add_to(all_sum_X2, sum_X2[w])
    /\ pc' = [pc EXCEPT ![w] = "mergeN"]
    /\ UNCHANGED <<pc_main, argv, extra, exit_code, rtol, maxtrials, nbatch,
                   team, randstate, nthreads, tnbatch, all_sum_X, all_ntrials,
                   lock, seed, mt, done_flag, t, sum_X, sum_X2, stats, histvars>>

\* all_ntrials += tnbatch;  (the merge of the batch is now complete)
MergeN(w) ==
    /\ pc[w] = "mergeN"
    /\ all_ntrials' = add_to(all_ntrials, tnbatch)
    /\ pc' = [pc EXCEPT ![w] = "post"]
    /\ committed' = committed (+) drawn[w]
    /\ merged' = merged (+) SetToBag({<<sum_X[w], sum_X2[w], tnbatch>>})
    /\ merges' = [merges EXCEPT ![w] = @ + 1]
    /\ after' = [after EXCEPT ![w] = IF first_conv # -1 THEN @ + 1 ELSE @]
    /\ UNCHANGED <<pc_main, argv, extra, exit_code, rtol, maxtrials, nbatch,
                   team, randstate, nthreads, tnbatch, all_sum_X, all_sum_X2,
                   lock, seed, mt, done_flag, t, sum_X, sum_X2, stats, drawn,
                   first_conv, first_by, obs, oracle, draws, access>>

\* faulty variant: the critical section ends without the post-merge check
PostCheckSkipped(w) ==
    /\ pc[w] = "post"
    /\ pc' = [pc EXCEPT ![w] = "test"]
    /\ lock' = 0
    /\ UNCHANGED <<pc_main, argv, extra, exit_code, rtol, maxtrials, nbatch,
                   team, randstate, nthreads, tnbatch, all_sum_X, all_sum_X2,
                   all_ntrials, seed, mt, done_flag, t, sum_X, sum_X2, stats,
                   histvars>>

\* the post-merge done_flag update and the end of the critical construct
PostCheck(w) ==
    /\ pc[w] = "post"
    /\ FlagUpdate(w, "test")
    /\ lock' = 0
    /\ UNCHANGED <<pc_main, argv, extra, exit_code, rtol, maxtrials, nbatch,
                   team, randstate, nthreads, tnbatch, all_sum_X, all_sum_X2,
                   all_ntrials, seed, mt, t, sum_X, sum_X2, stats, drawn,
                   committed, merged, merges, after, draws, access>>

\* faulty variant: the body runs once whatever the flag
loop_once(flag) == FALSE
\* while (!done_flag): the loop condition
loop_again(flag) == ~flag

\* faulty variant: the batch sums are not cleared
batch_reset_forgotten(old) == old
\* the value the head of the do-body gives the batch sums
batch_reset(old) == 0

\* back to the head of the do-body: sum_X = 0; sum_X2 = 0; t = 0.  The
\* horizon MaxTotal bounds the exploration; it lies beyond every count at
\* which the program itself starts a batch (see HorizonNeverBinds).
LoopAgain(w) ==
    /\ pc[w] = "test"
    /\ loop_again(done_flag[w])
    /\ all_ntrials < MaxTotal
    /\ sum_X' = [sum_X EXCEPT ![w] = batch_reset(@)]
    /\ sum_X2' = [sum_X2 EXCEPT ![w] = batch_reset(@)]
    /\ t' = [t EXCEPT ![w] = 0]
    /\ pc' = [pc EXCEPT ![w] = "batch"]
    /\ drawn' = [drawn EXCEPT ![w] = EmptyBag]
    /\ UNCHANGED <<pc_main, argv, extra, exit_code, rtol, maxtrials, nbatch,
                   team, randstate, nthreads, tnbatch, all_sum_X, all_sum_X2,
                   all_ntrials, lock, seed, mt, done_flag, stats, committed,
                   merged, merges, first_conv, first_by, after, obs, oracle,
                   draws, access>>

\* the thread leaves the loop and waits at the end of the parallel region
LoopExit(w) ==
    /\ pc[w] = "test"
    /\ ~loop_again(done_flag[w])
    /\ pc' = [pc EXCEPT ![w] = "done"]
    /\ UNCHANGED <<pc_main, argv, extra, exit_code, rtol, maxtrials, nbatch,
                   team, randstate, nthreads, tnbatch, all_sum_X, all_sum_X2,
                   all_ntrials, lock, seed, mt, done_flag, t, sum_X, sum_X2,
                   stats, histvars>>

\* --------------------------------------------------------- final statistics
\* EX = all_sum_X/all_ntrials; EX2 = all_sum_X2/all_ntrials;
\* stdX = sqrt((EX2-EX*EX)/all_ntrials), as fractions <<num, den>> of the
\* real values; stdX is held by its square (sqrt(x) = 0 exactly when x = 0).
final_stats(sX, sX2, n) ==
    [EX |-> <<sX, 2 * n>>,
     EX2 |-> <<sX2, 4 * n>>,
     stdX_sq |-> <<n * sX2 - sX * sX, 4 * n * n * n>>,
     ntrials |-> n]

\* faulty variant: main goes on as soon as one thread has reached the end
FinalNoJoin ==
    /\ pc_main = "parallel"
    /\ \E w \in Threads : pc[w] = "done"
    /\ stats' = <<final_stats(all_sum_X, all_sum_X2, all_ntrials)>>
    /\ pc_main' = "done"
    /\ exit_code' = <<0>>
    /\ UNCHANGED <<argv, extra, rtol, maxtrials, nbatch, team, randstate,
                   nthreads, tnbatch, all_sum_X, all_sum_X2, all_ntrials, lock,
                   pc, seed, mt, done_flag, t, sum_X, sum_X2, histvars>>

\* the parallel region ends when every thread has reached its end; main then
\* computes and prints the statistics and returns 0
Final ==
    /\ pc_main = "parallel"
    /\ \A w \in Threads : pc[w] = "done"
    /\ stats' = <<final_stats(all_sum_X, all_sum_X2, all_ntrials)>>
    /\ pc_main' = "done"
    /\ exit_code' = <<0>>
    /\ UNCHANGED <<argv, extra, rtol, maxtrials, nbatch, team, randstate,
                   nthreads, tnbatch, all_sum_X, all_sum_X2, all_ntrials, lock,
                   pc, seed, mt, done_flag, t, sum_X, sum_X2, histvars>>

\* any step of thread w (used to state its fair scheduling)
ThreadStep(w) ==
    \/ ThreadStart(w) \/ SeedEnter(w) \/ SeedDraw(w) \/ ThreadInit(w)
    \/ Trial(w) \/ CritEnter(w) \/ PreCheck(w) \/ MergeX(w) \/ MergeX2(w)
    \/ MergeN(w) \/ PostCheck(w) \/ LoopAgain(w) \/ LoopExit(w)

Next ==
    \/ GetoptStep
    \/ ArgsEnd
    \/ \E w \in Threads : ThreadStart(w)
    \/ \E w \in Threads : SeedEnter(w)
    \/ \E w \in Threads : SeedDraw(w)
    \/ \E w \in Threads : ThreadInit(w)
    \/ \E w \in Threads : Trial(w)
    \/ \E w \in Threads : CritEnter(w)
    \/ \E w \in Threads : PreCheck(w)
    \/ \E w \in Threads : MergeX(w)
    \/ \E w \in Threads : MergeX2(w)
    \/ \E w \in Threads : MergeN(w)
    \/ \E w \in Threads : PostCheck(w)
    \/ \E w \in Threads : LoopAgain(w)
    \/ \E w \in Threads : LoopExit(w)
    \/ Final

\* ----------------------------------------------------------- specifications
\* Command lines: -t, -n and -b with small arguments (accepted and
\* rejected), and the other ways process_args ends.
TolArgs == {Dec(0, 5), Num(0), Neg(1)}
CapArgs == {Num(i) : i \in 0..MaxCap}
BatchArgs == {Num(i) : i \in 0..MaxBatch} \cup {Junk}
Cmdlines ==
    {<<Opt("t", x), Opt("n", m), Opt("b", b)>> :
        x \in TolArgs, m \in CapArgs, b \in BatchArgs}
    \cup {<<Opt("p", Num(1)), Opt("?", Junk)>>}

Init == Start(Cmdlines, 1..MaxWorkers, {0})

Spec == Init /\ [][Next]_vars

\* A team of three threads on one accepted command line (-t 0.5 -n 3 -b 1)
\* and one rejected one.
InitTeam3 ==
    Start({<<Opt("t", Dec(0, 5)), Opt("n", Num(3)), Opt("b", Num(1))>>,
           <<Opt("p", Num(1)), Opt("n", Num(0))>>}, {3}, {0})

SpecTeam3 == InitTeam3 /\ [][Next]_vars

\* Fair scheduling: every thread that can take a step eventually takes one,
\* and so does the orchestrator.
Fairness ==
    /\ WF_vars(GetoptStep)
    /\ WF_vars(ArgsEnd)
    /\ WF_vars(Final)
    /\ \A w \in 1..MaxWorkers : WF_vars(w \in Threads /\ ThreadStep(w))

\* The runs checked for termination: a trial cap of 1, a tolerance of 0.5 or
\* 0 (with 0 the relative-error test is never true), every batch size, and
\* one rejected command line.
FairCmdlines ==
    {<<Opt("t", x), Opt("n", Num(1)), Opt("b", Num(b))>> :
        x \in {Dec(0, 5), Num(0)}, b \in 1..MaxBatch}
    \cup {<<Opt("p", Num(1)), Opt("n", Num(0))>>}

FairInit == Start(FairCmdlines, 1..MaxWorkers, {0})

FairSpec == FairInit /\ [][Next]_vars /\ Fairness

\* The single-thread scenarios: -t 1 -n 10 -b 5 on the constant 1/2 stream,
\* the alternating stream and an arbitrary stream; and a rejected -b 0.
InitScenario ==
    Start({<<Opt("t", Num(1)), Opt("n", Num(10)), Opt("b", Num(5))>>,
           <<Opt("t", Num(1)), Opt("n", Num(10)), Opt("b", Num(0))>>},
          {1}, {1, 2, 3})

SpecScenario == InitScenario /\ [][Next]_vars


\* ------------------------------------------------------------------ helpers
\* the sum over the elements e of the bag B of (copies of e) * F(e)
BagSum(B, F(_)) ==
    LET RECURSIVE S(_)
        S(D) == IF D = {} THEN 0
                ELSE LET e == CHOOSE x \in D : TRUE
                     IN  B[e] * F(e) + S(D \ {e})
    IN  S(DOMAIN B)

Ident(x) == x
Square(x) == x * x
First(c) == c[1]
Second(c) == c[2]
Third(c) == c[3]

RECURSIVE SumOver(_, _)
SumOver(f, D) ==
    IF D = {} THEN 0
    ELSE LET e == CHOOSE x \in D : TRUE IN f[e] + SumOver(f, D \ {e})

TotalMerges == SumOver(merges, Threads)

Converged == is_converged(all_sum_X, all_sum_X2, all_ntrials, rtol, maxtrials)

\* the part of the lock holder's batch already added to the totals while its
\* three-field merge is under way
PendingX ==
    IF lock # 0 /\ pc[lock] \in {"mergeX2", "mergeN"} THEN sum_X[lock] ELSE 0
PendingX2 ==
    IF lock # 0 /\ pc[lock] = "mergeN" THEN sum_X2[lock] ELSE 0

\* The horizon guard of LoopAgain never holds a thread back.
HorizonNeverBinds ==
    \A w \in Threads :
        pc[w] = "test" /\ loop_again(done_flag[w]) => all_ntrials < MaxTotal

\* ------------------------------------------------------------------- claims

\* C1: once any thread's convergence check has returned true, every other
\* thread completes at most one more merge and then leaves its loop.
C1_OthersStopWithinOneBatch ==
    \A w \in Threads :
        first_conv # -1 /\ w # first_by =>
            /\ after[w] <= 1
            /\ (after[w] = 1 /\ pc[w] = "test" => done_flag[w])

\* C2: when the run has ended, all_ntrials exceeds the value it had when a
\* convergence check first returned true by at most (workers-1)*batch_size.
C2_OvershootBounded ==
    pc_main = "done" => all_ntrials - first_conv <= (team - 1) * nbatch

\* C3 (as claimed): when the run has ended, the terminal aggregate satisfies
\* the stopping criterion.
C3_TerminalConverged ==
    pc_main = "done" => Converged

\* C3 (amended): when the run has ended, the last is_converged call of the
\* run returned true, and it was made on the aggregate either just after the
\* last merge (the terminal aggregate, which then satisfies the criterion)
\* or just before it (one batch short of the terminal aggregate).
C3_LastCheckConverged ==
    pc_main = "done" =>
        /\ oracle # <<>>
        /\ oracle[1].res
        /\ \/ /\ oracle[1].n = all_ntrials
              /\ oracle[1].sX = all_sum_X
              /\ oracle[1].sX2 = all_sum_X2
              /\ Converged
           \/ oracle[1].n = all_ntrials - nbatch

\* C3 witness: a finished run whose terminal aggregate fails the criterion.
C3_Witness ==
    pc_main = "done" /\ ~Converged

\* C4: under fair scheduling every run that enters the parallel phase
\* reaches the final statistics.
C4_Terminates ==
    (pc_main = "parallel") ~> (pc_main = "done")

\* C4 witness: a finished run whose relative-error test was never true (all
\* deviates 0) and that the trial cap stopped.
C4_Witness ==
    /\ pc_main = "done"
    /\ all_sum_X = 0
    /\ all_ntrials > maxtrials
    /\ team > 1

\* C5: the shared totals hold exactly the merged batches: all_ntrials is
\* batch_size times the number of merges and the number of committed
\* deviates; all_sum_X and all_sum_X2 are the sums of the committed deviates
\* and of their squares (plus, inside a merge, the fields already added).
C5_CommittedOnly ==
    /\ all_ntrials = nbatch * TotalMerges
    /\ all_ntrials = BagCardinality(committed)
    /\ all_sum_X = BagSum(committed, Ident) + PendingX
    /\ all_sum_X2 = BagSum(committed, Square) + PendingX2

\* C5 witness: one thread has merged a non-zero batch more than once while
\* another is part-way through a batch with a non-zero local sum.
C5_Witness ==
    \E w, v \in Threads :
        /\ w # v
        /\ merges[w] >= 2
        /\ all_sum_X > 0
        /\ pc[v] = "batch"
        /\ t[v] > 0 /\ t[v] < tnbatch
        /\ sum_X[v] > 0

\* C6 (as claimed): no run with relative_tolerance <= 0, max_trials < 1 or
\* batch_size < 1 gets past validation.
C6_NonPositiveRejected ==
    pc_main \in {"parallel", "done"} =>
        rtol[1] > 0 /\ maxtrials >= 1 /\ nbatch >= 1

\* nothing of the parallel phase has happened
NothingStarted ==
    /\ \A w \in Threads : pc[w] = "idle" /\ drawn[w] = EmptyBag
    /\ Len(randstate) = team
    /\ lock = 0
    /\ all_sum_X = 0 /\ all_sum_X2 = 0 /\ all_ntrials = 0
    /\ TotalMerges = 0
    /\ stats = <<>>

\* C7: whenever the run has been rejected, or a batch size or trial cap
\* below 1 has been stored, no thread has started, no seed has been drawn,
\* no trial has run and the aggregate is (0, 0, 0).
C7_RejectedBeforeParallel ==
    (pc_main = "exit" \/ nbatch < 1 \/ maxtrials < 1) => NothingStarted

\* C7 witness: a run rejected for batch_size = 0, with status -1.
C7_Witness ==
    pc_main = "exit" /\ nbatch = 0 /\ exit_code = <<-1>>

\* C8: every is_converged call with ntrials > max_trials returned true.
C8_CapAlwaysWins ==
    oracle # <<>> /\ oracle[1].n > maxtrials => oracle[1].res

\* C8 witness: such a call on an aggregate whose relative error is undefined
\* (zero mean), under a zero tolerance.
C8_Witness ==
    /\ oracle # <<>>
    /\ oracle[1].n > maxtrials
    /\ oracle[1].sX = 0
    /\ rtol[1] = 0
    /\ oracle[1].res

\* C9: with one thread, the flag after each merge is exactly is_converged of
\* the post-merge aggregate, a batch runs only while the aggregate is not
\* converged, and the run ends on a converged aggregate; with -t 1 -n 10
\* -b 5 the constant 1/2 stream and the alternating stream end after one
\* batch (ntrials = 5), the constant stream with mean 1/2 and standard
\* error 0, the alternating stream with sum_X = 2 and sum_X2 = 2.
C9_SingleWorkerStopsAtFirstConvergedBatch ==
    team = 1 =>
        /\ pc[1] = "test" => (done_flag[1] <=> Converged)
        /\ pc[1] = "batch" => ~Converged
        /\ pc[1] = "done" => Converged
        /\ ( /\ pc_main = "done"
             /\ rtol = <<10, 10>> /\ maxtrials = 10 /\ nbatch = 5
             /\ seed[1] \in {1, 2} )
           => /\ all_ntrials = 5
              /\ merges[1] = 1
              /\ stats[1].ntrials = 5
              /\ seed[1] = 1 =>
                    /\ 2 * stats[1].EX[1] = stats[1].EX[2]
                    /\ stats[1].stdX_sq[1] = 0
              /\ seed[1] = 2 =>
                    /\ all_sum_X = 4
                    /\ all_sum_X2 = 8

\* C9 witness: the constant 1/2 scenario has ended after one batch.
C9_Witness ==
    /\ pc_main = "done"
    /\ team = 1
    /\ seed[1] = 1
    /\ all_ntrials = 5
    /\ stats[1].EX = <<5, 10>>
    /\ stats[1].stdX_sq[1] = 0

\* C10: the final totals are a function of the bag of merged contributions
\* alone, whatever the order of the merges: each total is the sum of the
\* corresponding field over the bag.
C10_MergeOrderIndependent ==
    pc_main = "done" =>
        /\ all_sum_X = BagSum(merged, First)
        /\ all_sum_X2 = BagSum(merged, Second)
        /\ all_ntrials = BagSum(merged, Third)

\* C10 witness: a finished run in which two threads each merged and the
\* merged contributions differ, so that their order could matter.
C10_Witness ==
    /\ pc_main = "done"
    /\ team = 2
    /\ merges[1] >= 1 /\ merges[2] >= 1
    /\ \E c, d \in DOMAIN merged : c[1] # d[1] /\ c[2] # d[2]

\* the thread is inside a critical construct
InCritical(w) ==
    pc[w] \in {"seed_draw", "pre", "mergeX", "mergeX2", "mergeN", "post"}

\* the shared triple holds whole batches only
Untorn ==
    /\ all_sum_X = BagSum(committed, Ident)
    /\ all_sum_X2 = BagSum(committed, Square)
    /\ all_ntrials = BagCardinality(committed)

\* some check of the thread's last critical section returned true
SawTrue(w) == \E i \in DOMAIN obs[w] : obs[w][i]

\* C11: a thread reaches a convergence check only with a full batch of
\* batch_size trials behind it, it has merged at least one batch when it
\* leaves its loop, and the final trial count is at least workers times
\* batch_size.
C11_BatchBeforeCheck ==
    /\ \A w \in Threads :
          /\ pc[w] \in {"pre", "mergeX", "mergeX2", "mergeN", "post"} =>
                /\ t[w] = nbatch
                /\ BagCardinality(drawn[w]) = nbatch
                /\ nbatch >= 1
          /\ pc[w] \in {"batch", "pre"} /\ merges[w] = 0 => obs[w] = <<>>
          /\ pc[w] \in {"test", "done"} => merges[w] >= 1
    /\ pc_main = "done" => all_ntrials >= team * nbatch

\* C11 witness: a finished run of two threads with batches of two trials in
\* which each thread merged exactly one batch.
C11_Witness ==
    /\ pc_main = "done"
    /\ team = 2
    /\ nbatch = 2
    /\ all_ntrials = team * nbatch
    /\ \A w \in Threads : merges[w] = 1

\* C12: at most one thread is inside a critical construct and it is the one
\* that holds the lock; every oracle evaluation (pre- or post-merge) reads a
\* triple of whole batches; a thread running trials does not hold the lock.
C12_OneCriticalSection ==
    /\ \A w, v \in Threads : InCritical(w) /\ InCritical(v) => w = v
    /\ \A w \in Threads : InCritical(w) <=> lock = w
    /\ \A w \in Threads : pc[w] \in {"pre", "post"} => Untorn
    /\ \A w \in Threads : pc[w] = "batch" => lock # w

\* C12 witness: one thread is in the middle of its merge (sum_X added,
\* ntrials not yet) while another has finished its batch and waits.
C12_Witness ==
    \E w, v \in Threads :
        /\ w # v
        /\ pc[w] = "mergeX2"
        /\ sum_X[w] > 0
        /\ ~Untorn
        /\ pc[v] = "batch"
        /\ ~in_batch(t[v], tnbatch)

\* C13 (as claimed): beyond the aggregate and the flag, no variable is
\* written by more than one thread, and none written by a thread outside the
\* critical section is read or written by another: nthreads and tnbatch each
\* have at most one thread touching them.
C13_OnlyAggregateShared ==
    /\ Cardinality(access.nthreads_w) <= 1
    /\ Cardinality(access.tnbatch_w) <= 1
    /\ \A w \in access.tnbatch_w : access.tnbatch_r \subseteq {w}

\* C14: once a thread has initialised its done_flag, no step takes the flag
\* from true back to false.
C14_FlagMonotonic ==
    [][\A w \in Threads :
          (pc[w] \notin {"idle", "start", "seed_enter", "seed_draw", "init"}
             /\ done_flag[w]) => done_flag'[w]]_vars

\* C14 witness: a thread whose pre-merge check was true has merged, and the
\* post-merge aggregate fails the criterion; its flag is still true.
C14_Witness ==
    \E w \in Threads :
        /\ pc[w] = "test"
        /\ obs[w] = <<TRUE>>
        /\ done_flag[w]
        /\ ~Converged
        /\ lock = 0

\* C15: a thread has drawn no seed before the draw and exactly one from then
\* on, so one before its first trial and never a second; the draws are
\* mutually exclusive (the drawing thread holds the lock); every draw took
\* one value from the shared random() stream.
C15_OneSeedEach ==
    /\ \A w \in Threads :
          /\ draws[w] =
                IF pc[w] \in {"idle", "start", "seed_enter", "seed_draw"}
                THEN 0 ELSE 1
          /\ draws[w] = 0 => drawn[w] = EmptyBag /\ merges[w] = 0
          /\ pc[w] = "seed_draw" => lock = w
    /\ \A w, v \in Threads :
          pc[w] = "seed_draw" /\ pc[v] = "seed_draw" => w = v
    /\ SumOver(draws, Threads) = team - Len(randstate)

\* C15 witness: one thread is drawing its seed while another, which has its
\* seed already, runs trials, in a team of two.
C15_Witness ==
    \E w, v \in Threads :
        /\ pc[w] = "seed_draw"
        /\ draws[w] = 0
        /\ pc[v] = "batch"
        /\ draws[v] = 1
        /\ t[v] > 0

\* C16: the statistics exist only once every thread has left its loop; they
\* are those of the aggregate as it stands (nothing was merged since), and
\* the reported count is batch_size times the number of merged batches.
C16_StatsAfterJoin ==
    /\ stats # <<>> <=> pc_main = "done"
    /\ pc_main = "done" =>
          /\ \A w \in Threads : pc[w] = "done"
          /\ lock = 0
          /\ stats[1] = final_stats(all_sum_X, all_sum_X2, all_ntrials)
          /\ stats[1].ntrials = nbatch * TotalMerges

\* C16 witness: a finished run of two threads that merged different numbers
\* of batches.
C16_Witness ==
    /\ pc_main = "done"
    /\ team = 2
    /\ merges[1] # merges[2]
    /\ stats[1].ntrials = nbatch * (merges[1] + merges[2])

\* C17: a thread whose pre-merge check was true goes on to merge its batch
\* (the batch is in the aggregate once the merge section is past), makes no
\* second check, keeps its flag, can leave at once, and never starts another
\* batch.
C17_MergeThenStop ==
    \A w \in Threads :
        /\ ( /\ pc[w] \in {"mergeX", "mergeX2", "mergeN", "post", "test", "done"}
             /\ obs[w] # <<>>
             /\ Head(obs[w]) )
           => /\ done_flag[w]
              /\ pc[w] \in {"post", "test", "done"} =>
                    /\ after[w] >= 1
                    /\ drawn[w] \sqsubseteq committed
              /\ pc[w] \in {"test", "done"} => obs[w] = <<TRUE>>
              /\ pc[w] = "test" => ENABLED LoopExit(w)
        /\ pc[w] = "batch" => obs[w] \in {<<>>, <<FALSE, FALSE>>}

\* C17 witness: a thread has left on a true pre-merge check, its merge left
\* the aggregate unconverged, and the thread whose check found convergence
\* first has not left yet.
C17_Witness ==
    \E w \in Threads :
        /\ pc[w] = "done"
        /\ obs[w] = <<TRUE>>
        /\ after[w] = 1
        /\ ~Converged
        /\ first_by # w
        /\ pc[first_by] = "test"

\* C18 (as claimed): is_converged is never called with ntrials = 0 or with
\* sum_X = 0.
C18_OracleGuarded ==
    oracle # <<>> => oracle[1].n # 0 /\ oracle[1].sX # 0

\* C19: from the start of the parallel phase on, all_ntrials is at most
\* max_trials + workers * batch_size.
C19_TrialCeiling ==
    pc_main \in {"parallel", "done"} =>
        all_ntrials <= maxtrials + team * nbatch

\* C19 witness: two threads reach the ceiling exactly.
C19_Witness ==
    /\ pc_main = "done"
    /\ team = 2
    /\ all_ntrials = maxtrials + team * nbatch

\* C20: after a merge section a thread's flag is true exactly when one of
\* its own checks in that section returned true, and a thread that has left
\* its loop has such a check; a true result of another thread does not stop
\* it.
C20_OwnObservationOnly ==
    \A w \in Threads :
        /\ pc[w] \in {"test", "done"} => (done_flag[w] <=> SawTrue(w))
        /\ pc[w] = "done" => SawTrue(w)
        /\ pc[w] = "batch" /\ merges[w] >= 1 => ~done_flag[w]

\* C20 witness: a thread has left on its own true check, and afterwards
\* another thread merged with both its checks false and started a new batch.
C20_Witness ==
    \E w \in Threads :
        /\ first_conv # -1
        /\ first_by # w
        /\ pc[first_by] = "done"
        /\ pc[w] = "batch"
        /\ after[w] >= 1
        /\ obs[w] = <<FALSE, FALSE>>
        /\ ~done_flag[w]

=============================================================================
